---- MODULE Spec2Model ----
(***************************************************************************)
(* Model of the analytics core of aoe2killcoach4                           *)
(* (src/src/aoe2killcoach4/core.py).  Each analysed function is a small    *)
(* state machine: Init draws the function's arguments from bounded sets,   *)
(* the actions are the function's statements and loop iterations, and      *)
(* pc = "done" marks the return.                                           *)
(*                                                                         *)
(*   SpecSnap   : snapshot_composition                                     *)
(*   SpecSwitch : _detect_switches                                         *)
(*   SpecIdle   : _collect_tc_idle                                         *)
(*   SpecTiming : extract_timings                                          *)
(*   SpecReport : analyze_replay (find_player, coerce_seconds, warnings)   *)
(*   SpecProd   : _collect_production_idle_flags                           *)
(*   SpecPipe   : snapshot_composition feeding _detect_switches            *)
(*                                                                         *)
(* Python's None is the empty tuple None; an Optional[int] holding t is    *)
(* the one-element tuple <<t>>.  A dict is a function whose DOMAIN is the  *)
(* dict's key set.  The *_str fields (format_seconds) carry no information *)
(* beyond the integer they format and are left out of the records.         *)
(***************************************************************************)
EXTENDS Integers, Sequences, FiniteSets, TLC

VARIABLES
    pc,                 \* position in the function being run
    unit_events,        \* argument unit_events: list of {time, line, object_ids}
    duration,           \* argument duration (whole seconds)
    age_times,          \* argument age_times: age -> click_time (Optional[int])
    buckets,            \* snapshot_composition: sorted bucket boundaries
    events_sorted,      \* snapshot_composition: events sorted by time
    idx,                \* snapshot_composition: running cursor
    totals,             \* snapshot_composition: running dict line -> count
    snapshots,          \* snapshot_composition: the list being returned
    opponent_snapshots, \* _detect_switches: argument
    you_snapshots,      \* _detect_switches: argument
    switch_events,      \* _detect_switches: list of SwitchEvents
    response_delays,    \* _detect_switches: list of ResponseRecords
    missed,             \* _detect_switches: list of missed opportunities
    pair_i,             \* _detect_switches: pairs of the zip consumed so far
    event_i,            \* _detect_switches: switch events consumed so far
    builds,             \* _collect_tc_idle: argument, list of build events
    villager_events,    \* _collect_tc_idle: villager events sorted by time
    tc_ids,             \* _collect_tc_idle: object ids of the Town Centers
    had_ids,            \* _collect_tc_idle: bool(tc_ids)
    idle_total,         \* _collect_tc_idle: idle seconds so far
    per_age,            \* _collect_tc_idle: idle seconds per age so far
    events_by_tc,       \* _collect_tc_idle: tc id -> production times
    tcs_left,           \* _collect_tc_idle: timelines not walked yet
    actions,            \* extract_timings: data["actions"]
    uptimes_data,       \* extract_timings: data["uptimes"], indexed by player
    player_index,       \* extract_timings: argument
    clicks,             \* extract_timings: age -> click time from the actions
    uptimes,            \* extract_timings: age -> uptime of the player
    timings,            \* extract_timings: the "ages" dict being returned
    players,            \* analyze_replay: data["players"]
    you_name,           \* analyze_replay: argument (Optional[str])
    you_player,         \* analyze_replay: argument (Optional[int])
    match_duration,     \* analyze_replay: match_info["duration"], as decoded
    viewer,             \* analyze_replay: "you", the viewer's player record
    opponent,           \* analyze_replay: the opponent's player record
    missing,            \* analyze_replay: the missing_ids flags of the detectors
    tc_idle,            \* analyze_replay: tc_idle_time totals, you / opponent
    warnings,           \* analyze_replay: the report's warnings list
    error,              \* the exception that ended the call, None without one
    events_by_id,       \* _collect_production_idle_flags: id -> production times
    flags,              \* _collect_production_idle_flags: list of IdleFlags
    missing_ids,        \* _collect_production_idle_flags: flag returned
    build_i             \* _collect_production_idle_flags: builds consumed so far

argVars == <<unit_events, duration, age_times>>

snapVars == <<buckets, events_sorted, idx, totals, snapshots>>

switchVars == <<opponent_snapshots, you_snapshots, switch_events,
                response_delays, missed, pair_i, event_i>>

idleVars == <<builds, villager_events, tc_ids, had_ids, idle_total, per_age,
              events_by_tc, tcs_left>>

timingVars == <<actions, uptimes_data, player_index, clicks, uptimes, timings>>

reportVars == <<players, you_name, you_player, match_duration, viewer, opponent,
                missing, tc_idle, warnings, error>>

prodVars == <<events_by_id, flags, missing_ids, build_i>>

vars == <<pc, argVars, snapVars, switchVars, idleVars, timingVars, reportVars,
          prodVars>>

----------------------------------------------------------------------------
(* Python values *)

None == <<>>

Some(t) == <<t>>

Val(o) == o[1]

Max(a, b) == IF a >= b THEN a ELSE b

Min(a, b) == IF a <= b THEN a ELSE b

EmptyDict == [k \in {} |-> 0]

\* dict.get(key, default)
Get(d, k, default) == IF k \in DOMAIN d THEN d[k] ELSE default

\* d[k] = v on a copy of d
Put(d, k, v) == [x \in DOMAIN d \cup {k} |-> IF x = k THEN v ELSE d[x]]

RECURSIVE SumCounts(_, _)
\* sum(count for line, count in d.items() if line in keys)
SumCounts(d, keys) ==
    IF keys = {} THEN 0
    ELSE LET k == CHOOSE x \in keys : TRUE
         IN  d[k] + SumCounts(d, keys \ {k})

RECURSIVE Gcd(_, _)
Gcd(a, b) == IF b = 0 THEN a ELSE Gcd(b, a % b)

\* the value of the true division n / d (d > 0), as a fraction in lowest terms
Ratio(n, d) == LET g == Gcd(n, d) IN <<n \div g, d \div g>>

\* all sequences over S of length at most n
SeqsUpTo(S, n) == UNION {[1..k -> S] : k \in 0..n}

RECURSIVE InsertByTime(_, _)
\* insert e behind every element whose time is <= e.time (stable)
InsertByTime(sorted, e) ==
    IF sorted = <<>> THEN <<e>>
    ELSE IF Head(sorted).time <= e.time
         THEN <<Head(sorted)>> \o InsertByTime(Tail(sorted), e)
         ELSE <<e>> \o sorted

RECURSIVE SortedByTime(_)
\* sorted(events, key=lambda item: item["time"]): stable, ascending by time
SortedByTime(evs) ==
    IF evs = <<>> THEN <<>>
    ELSE InsertByTime(SortedByTime(SubSeq(evs, 1, Len(evs) - 1)), evs[Len(evs)])

RECURSIVE SortedInts(_)
\* sorted(set(xs)) for a set of integers
SortedInts(S) ==
    IF S = {} THEN <<>>
    ELSE LET m == CHOOSE x \in S : \A y \in S : x <= y
         IN  <<m>> \o SortedInts(S \ {m})

----------------------------------------------------------------------------
(* Tables of data_mappings and fixed sets of core.py *)

\* lines kept out of military_total
NonMilitaryLines == {"villager", "fishing_ship", "trade"}

GOLD_LINES == {"archer_line", "knight_line", "camel_line", "monk_line"}

TRASH_LINES == {"skirmisher_line", "pikeman_line", "scout_line"}

Ages == <<"Feudal", "Castle", "Imperial">>

\* default of the parameter interval
Interval == 300

----------------------------------------------------------------------------
(* Bounds and input sets *)

MaxEvents == 3

SnapEventTimes == {10, 300}

SnapLines == {"villager", "archer_line", "skirmisher_line", "unknown"}

SnapEvents == [time : SnapEventTimes, line : SnapLines]

\* a multiple of the interval, a duration between two multiples, and the
\* duration 0 that analyze_replay passes when the record has none
SnapDurations == {0, Interval, Interval + 100}

SnapAgeTimes ==
    {[Feudal |-> f, Castle |-> c, Imperial |-> None] :
        f \in {None, Some(130)}, c \in {None, Some(Interval)}}

----------------------------------------------------------------------------
(* snapshot_composition *)

\* range(0, max(duration, 0) + interval, interval)
RangeBuckets(dur, interval) ==
    {x \in 0..(Max(dur, 0) + interval - 1) : x % interval = 0}

\* the click times appended to the bucket list
ClickBuckets(ages) ==
    {Val(ages[Ages[i]]) : i \in {j \in 1..Len(Ages) : ages[Ages[j]] # None}}

\* lines 246-251
Buckets(dur, ages, interval) ==
    SortedInts(RangeBuckets(dur, interval) \cup ClickBuckets(ages))

\* mutant of WithinBucket: the cursor stops at an event on the boundary
WithinBucketStrict(t, bucket) == t < bucket

\* the cursor test of the while loop (line 257)
WithinBucket(t, bucket) == t <= bucket

RECURSIVE Consume(_, _, _, _)
\* the while loop of lines 257-260: the cursor and the totals after it
Consume(evs, i, tot, bucket) ==
    IF i < Len(evs) /\ WithinBucket(evs[i + 1].time, bucket)
    THEN Consume(evs, i + 1,
                 Put(tot, evs[i + 1].line, Get(tot, evs[i + 1].line, 0) + 1),
                 bucket)
    ELSE [idx |-> i, totals |-> tot]

\* mutant of Advance: the totals start empty in every bucket
AdvanceReset(evs, i, tot, bucket) == Consume(evs, i, EmptyDict, bucket)

\* what one bucket does to the accumulator: idx and totals are set once,
\* before the for loop (lines 254-255), and carried from bucket to bucket
Advance(evs, i, tot, bucket) == Consume(evs, i, tot, bucket)

MilitaryTotal(tot) == SumCounts(tot, DOMAIN tot \ NonMilitaryLines)

GoldTotal(tot) == SumCounts(tot, DOMAIN tot \cap GOLD_LINES)

TrashTotal(tot) == SumCounts(tot, DOMAIN tot \cap TRASH_LINES)

\* mutant of Pct: an empty army reads as 0.0
PctZero(x, military_total) ==
    IF military_total # 0 THEN Ratio(x, military_total) ELSE Ratio(0, 1)

\* (x / military_total) if military_total else None
Pct(x, military_total) ==
    IF military_total # 0 THEN Ratio(x, military_total) ELSE None

\* the dict appended at lines 272-284
Snapshot(bucket, tot) ==
    [time                  |-> bucket,
     totals_by_line        |-> tot,
     military_total        |-> MilitaryTotal(tot),
     villagers_total_proxy |-> Get(tot, "villager", 0),
     gold_units_total      |-> GoldTotal(tot),
     trash_units_total     |-> TrashTotal(tot),
     gold_pct              |-> Pct(GoldTotal(tot), MilitaryTotal(tot)),
     trash_pct             |-> Pct(TrashTotal(tot), MilitaryTotal(tot))]

\* the variables of a function that is not being run keep these values
ArgsParked == unit_events = <<>> /\ duration = 0 /\ age_times = None

SnapParked ==
    /\ buckets = <<>>
    /\ events_sorted = <<>>
    /\ idx = 0
    /\ totals = EmptyDict
    /\ snapshots = <<>>

SwitchParked ==
    /\ opponent_snapshots = <<>>
    /\ you_snapshots = <<>>
    /\ switch_events = <<>>
    /\ response_delays = <<>>
    /\ missed = <<>>
    /\ pair_i = 0
    /\ event_i = 0

NoIdle == [Dark |-> 0, Feudal |-> 0, Castle |-> 0, Imperial |-> 0]

IdleParked ==
    /\ builds = <<>>
    /\ villager_events = <<>>
    /\ tc_ids = {}
    /\ had_ids = FALSE
    /\ idle_total = 0
    /\ per_age = NoIdle
    /\ events_by_tc = EmptyDict
    /\ tcs_left = {}

TimingParked ==
    /\ actions = <<>>
    /\ uptimes_data = <<>>
    /\ player_index = 0
    /\ clicks = EmptyDict
    /\ uptimes = EmptyDict
    /\ timings = EmptyDict

ReportParked ==
    /\ players = <<>>
    /\ you_name = None
    /\ you_player = None
    /\ match_duration = [kind |-> "none"]
    /\ viewer = None
    /\ opponent = None
    /\ missing = None
    /\ tc_idle = None
    /\ warnings = <<>>
    /\ error = None

ProdParked ==
    /\ events_by_id = EmptyDict
    /\ flags = <<>>
    /\ missing_ids = FALSE
    /\ build_i = 0

SnapInit ==
    /\ pc = "snap_start"
    /\ ReportParked
    /\ ProdParked
    /\ SwitchParked
    /\ IdleParked
    /\ TimingParked
    /\ unit_events \in SeqsUpTo(SnapEvents, MaxEvents)
    /\ duration \in SnapDurations
    /\ age_times \in SnapAgeTimes
    /\ buckets = <<>>
    /\ events_sorted = <<>>
    /\ idx = 0
    /\ totals = EmptyDict
    /\ snapshots = <<>>

\* lines 246-255: the bucket list, the sorted events, the empty accumulator
SnapSetup ==
    /\ pc = "snap_start"
    /\ buckets' = Buckets(duration, age_times, Interval)
    /\ events_sorted' = SortedByTime(unit_events)
    /\ idx' = 0
    /\ totals' = EmptyDict
    /\ snapshots' = <<>>
    /\ pc' = "snap_loop"
    /\ UNCHANGED <<reportVars, prodVars, argVars, switchVars, idleVars, timingVars>>

\* one iteration of "for bucket in buckets" (lines 256-284)
SnapBucket ==
    /\ pc = "snap_loop"
    /\ Len(snapshots) < Len(buckets)
    /\ LET bucket == buckets[Len(snapshots) + 1]
           a == Advance(events_sorted, idx, totals, bucket)
       IN  /\ idx' = a.idx
           /\ totals' = a.totals
           /\ snapshots' = Append(snapshots, Snapshot(bucket, a.totals))
    /\ UNCHANGED <<reportVars, prodVars, pc, argVars, buckets, events_sorted, switchVars, idleVars,
                   timingVars>>

\* line 285: return snapshots
SnapReturn ==
    /\ pc = "snap_loop"
    /\ Len(snapshots) = Len(buckets)
    /\ pc' = "done"
    /\ UNCHANGED <<reportVars, prodVars, argVars, snapVars, switchVars, idleVars, timingVars>>

SnapNext == SnapSetup \/ SnapBucket \/ SnapReturn

SpecSnap == SnapInit /\ [][SnapNext]_vars

----------------------------------------------------------------------------
(* Properties of snapshot_composition *)

\* number of input events of the lines in L with time <= t
CountUpTo(L, t) ==
    Cardinality({i \in DOMAIN unit_events :
                    unit_events[i].line \in L /\ unit_events[i].time <= t})

AllLines == {unit_events[i].line : i \in DOMAIN unit_events}

\* C2: in the returned sequence, every snapshot after the first holds every
\* key of the snapshot before it, with a count that is not smaller.
C2_TotalsNonDecreasing ==
    \A n \in 2..Len(snapshots) :
        LET prev == snapshots[n - 1].totals_by_line
            curr == snapshots[n].totals_by_line
        IN  /\ DOMAIN prev \subseteq DOMAIN curr
            /\ \A k \in DOMAIN prev : curr[k] >= prev[k]

\* the events were given out of time order, and a later snapshot has both a
\* key the one before it lacks and a count that grew
C2_Witness ==
    /\ pc = "done"
    /\ \E i \in 1..(Len(unit_events) - 1) :
           unit_events[i].time > unit_events[i + 1].time
    /\ \E n \in 2..Len(snapshots) :
           LET prev == snapshots[n - 1].totals_by_line
               curr == snapshots[n].totals_by_line
           IN  /\ DOMAIN prev # {}
               /\ DOMAIN curr \ DOMAIN prev # {}
               /\ \E k \in DOMAIN prev : curr[k] > prev[k]

\* C3: in every snapshot, a line's total is the number of input events of
\* that line with time <= the snapshot's time, and a line is a key exactly
\* when that number is positive.
C3_TotalsAreDirectCount ==
    \A n \in 1..Len(snapshots) :
        LET s == snapshots[n]
        IN  /\ \A l \in AllLines \cup DOMAIN s.totals_by_line :
                   Get(s.totals_by_line, l, 0) = CountUpTo({l}, s.time)
            /\ \A l \in DOMAIN s.totals_by_line : s.totals_by_line[l] > 0

\* a bucket inserted at an age click time lies between two interval
\* boundaries, an event falls exactly on a later boundary, and the snapshot
\* at that boundary counts it while the one before does not
C3_Witness ==
    /\ pc = "done"
    /\ \E n \in 2..Len(snapshots) :
           /\ snapshots[n - 1].time % Interval # 0
           /\ \E i \in DOMAIN unit_events :
                  /\ unit_events[i].time = snapshots[n].time
                  /\ Get(snapshots[n].totals_by_line, unit_events[i].line, 0)
                       > Get(snapshots[n - 1].totals_by_line, unit_events[i].line, 0)

\* C6: in every snapshot, military_total counts the events of every line but
\* villager, fishing_ship and trade; gold_pct and trash_pct are None exactly
\* when it is 0, and otherwise are gold_units_total / military_total and
\* trash_units_total / military_total.
C6_PctNullIffNoMilitary ==
    \A n \in 1..Len(snapshots) :
        LET s == snapshots[n]
            m == CountUpTo(AllLines \ NonMilitaryLines, s.time)
        IN  /\ s.military_total = m
            /\ (s.gold_pct = None) <=> (m = 0)
            /\ (s.trash_pct = None) <=> (m = 0)
            /\ m # 0 =>
                  /\ s.gold_pct[1] * m = s.gold_units_total * s.gold_pct[2]
                  /\ s.trash_pct[1] * m = s.trash_units_total * s.trash_pct[2]
                  /\ s.gold_pct[2] > 0 /\ s.trash_pct[2] > 0

\* one returned sequence holds a snapshot with villagers only (percentages
\* None) and a later one with a mixed army (both percentages strictly
\* between 0 and 1)
C6_Witness ==
    /\ pc = "done"
    /\ \E n \in 1..Len(snapshots) :
           /\ snapshots[n].villagers_total_proxy > 0
           /\ snapshots[n].gold_pct = None
    /\ \E n \in 1..Len(snapshots) :
           /\ snapshots[n].gold_units_total > 0
           /\ snapshots[n].trash_units_total > 0
           /\ snapshots[n].gold_pct # None

\* C10: every snapshot time lies within [0, duration], and the bucket set is
\* the multiples of the interval up to the duration, the duration itself,
\* and the non-null age click times.  Stated for the inputs the claim cannot
\* be blamed on: a duration >= 0 and click times inside the match.
C10_TimesWithinDuration ==
    (/\ pc = "done"
     /\ duration >= 0
     /\ \A t \in ClickBuckets(age_times) : 0 <= t /\ t <= duration)
    =>
        /\ \A n \in 1..Len(snapshots) :
               0 <= snapshots[n].time /\ snapshots[n].time <= duration
        /\ {snapshots[n].time : n \in 1..Len(snapshots)} =
               {x \in 0..duration : x % Interval = 0} \cup {duration}
                  \cup ClickBuckets(age_times)

----------------------------------------------------------------------------
(* _detect_switches *)

\* lines never reported as a switch (line 460)
ExcludedLines == {"villager", "fishing_ship", "trade", "unknown"}

\* count - prev_count >= 5 (line 462)
SwitchDelta == 5

\* prev_count <= 2 (line 462)
SwitchPrevMax == 2

\* a counter line answers from 3 units on (line 480)
CounterMin == 3

\* data_mappings.COUNTER_MAP: opponent line -> counter lines, in table order
COUNTER_MAP ==
    [knight_line |-> <<"pikeman_line", "camel_line">>,
     archer_line |-> <<"skirmisher_line">>]

\* COUNTER_MAP.get(opp_line, [])
Counters(opp_line) == Get(COUNTER_MAP, opp_line, <<>>)

\* mutant of IsSwitch: no baseline test on prev_count
IsSwitchAnyPrev(prev_count, count, line) ==
    /\ line \notin ExcludedLines
    /\ count - prev_count >= SwitchDelta

\* mutant of IsSwitch: the baseline test is prev_count < 2
IsSwitchStrictPrev(prev_count, count, line) ==
    /\ line \notin ExcludedLines
    /\ count - prev_count >= SwitchDelta
    /\ prev_count < SwitchPrevMax

\* the tests of lines 460-462
IsSwitch(prev_count, count, line) ==
    /\ line \notin ExcludedLines
    /\ count - prev_count >= SwitchDelta
    /\ prev_count <= SwitchPrevMax

\* the SwitchEvents of one pair (prev, curr) of the zip (lines 458-471)
PairEvents(prev, curr) ==
    {[time          |-> curr.time,
      opponent_line |-> line,
      delta         |-> curr.totals_by_line[line] - Get(prev.totals_by_line, line, 0),
      confidence    |-> "low"] :
        line \in {l \in DOMAIN curr.totals_by_line :
                     IsSwitch(Get(prev.totals_by_line, l, 0),
                              curr.totals_by_line[l], l)}}

\* the orders in which a dict can yield the elements of S
Orders(S) ==
    {q \in [1..Cardinality(S) -> S] : \A x \in S : \E i \in DOMAIN q : q[i] = x}

RECURSIVE FirstCounter(_, _)
\* the inner loop of lines 479-488: the first counter, in table order, with
\* at least CounterMin units in the snapshot, or None
FirstCounter(snapshot, counters) ==
    IF counters = <<>> THEN None
    ELSE IF Get(snapshot.totals_by_line, Head(counters), 0) >= CounterMin
         THEN Some(Head(counters))
         ELSE FirstCounter(snapshot, Tail(counters))

\* mutant of TooEarly: no snapshot is skipped
TooEarlyNever(snapshot, event) == FALSE

\* line 477: the snapshot is before the event
TooEarly(snapshot, event) == snapshot.time < event.time

RECURSIVE FindResponse(_, _, _)
\* the loop of lines 476-490 from snapshot j on: a response dict, or None
FindResponse(event, you, j) ==
    IF j > Len(you) THEN None
    ELSE IF TooEarly(you[j], event) THEN FindResponse(event, you, j + 1)
    ELSE LET c == FirstCounter(you[j], Counters(event.opponent_line))
         IN  IF c # None
             THEN Some([opponent_line |-> event.opponent_line,
                        your_line     |-> Val(c),
                        response_time |-> you[j].time,
                        delay         |-> you[j].time - event.time,
                        confidence    |-> "low"])
             ELSE FindResponse(event, you, j + 1)

\* the dict appended to missed (lines 496-502)
MissedEntry(event) ==
    [opponent_line     |-> event.opponent_line,
     suggested_counters |-> Counters(event.opponent_line),
     confidence        |-> "low"]

\* mutant of Outcome: an event whose line has no counters is dropped
OutcomeSkipsNoCounters(event, you) ==
    LET r == FindResponse(event, you, 1)
    IN  IF Counters(event.opponent_line) = <<>>
        THEN [responses |-> <<>>, missed |-> <<>>]
        ELSE IF r # None
             THEN [responses |-> <<Val(r)>>, missed |-> <<>>]
             ELSE [responses |-> <<>>, missed |-> <<MissedEntry(event)>>]

\* lines 475-502 for one event: what is appended to each list
Outcome(event, you) ==
    LET r == FindResponse(event, you, 1)
    IN  IF r # None
        THEN [responses |-> <<Val(r)>>, missed |-> <<>>]
        ELSE [responses |-> <<>>, missed |-> <<MissedEntry(event)>>]

\* bounds and input sets
MaxOppSnaps == 3

MaxYouSnaps == 3

\* snapshot times of the two players (their click times differ)
OppTimes == <<0, 420, 600, 900, 1200>>

YouTimes == <<300, 420, 480, 600, 900, 1200>>

\* a dict holding the lines of full that have a positive count
DictOf(full) == [l \in {k \in DOMAIN full : full[k] > 0} |-> full[l]]

OppTotals(knights, extra) ==
    DictOf([knight_line |-> knights,
            monk_line   |-> IF extra THEN 6 ELSE 0,
            unknown     |-> IF extra THEN 6 ELSE 0])

\* counts on both sides of every threshold of IsSwitch
OppTotalsRich ==
    {OppTotals(k, x) : k \in {0, 1, 2, 3, 6, 7, 8}, x \in BOOLEAN}

OppTotalsFew == {OppTotals(1, FALSE), OppTotals(7, TRUE)}

YouTotals ==
    {DictOf([pikeman_line |-> p, camel_line |-> c]) : p \in {0, 2, 3}, c \in {0, 3}}

\* the snapshot lists with the given times and totals drawn from S
SnapshotLists(times, S, n) ==
    {[i \in DOMAIN f |-> [time |-> times[i], totals_by_line |-> f[i]]] :
        f \in SeqsUpTo(S, n)}

YouAnswering ==
    [i \in 1..MaxYouSnaps |->
        [time |-> YouTimes[i], totals_by_line |-> DictOf([pikeman_line |-> 3])]]

SwitchInit ==
    /\ pc = "ds_detect"
    /\ ReportParked
    /\ ProdParked
    /\ ArgsParked
    /\ SnapParked
    /\ IdleParked
    /\ TimingParked
    /\ \/ /\ opponent_snapshots \in SnapshotLists(OppTimes, OppTotalsRich, MaxOppSnaps)
          /\ you_snapshots \in {YouAnswering}
       \/ /\ opponent_snapshots \in SnapshotLists(OppTimes, OppTotalsFew, MaxOppSnaps)
          /\ you_snapshots \in SnapshotLists(YouTimes, YouTotals, MaxYouSnaps)
    /\ switch_events = <<>>
    /\ response_delays = <<>>
    /\ missed = <<>>
    /\ pair_i = 0
    /\ event_i = 0

\* one iteration of "for prev, curr in zip(...)" (lines 457-471)
DetectPair ==
    /\ pc = "ds_detect"
    /\ pair_i + 1 < Len(opponent_snapshots)
    /\ \E q \in Orders(PairEvents(opponent_snapshots[pair_i + 1],
                                   opponent_snapshots[pair_i + 2])) :
           switch_events' = switch_events \o q
    /\ pair_i' = pair_i + 1
    /\ UNCHANGED <<reportVars, prodVars, pc, argVars, snapVars, idleVars, timingVars, opponent_snapshots,
                   you_snapshots, response_delays, missed, event_i>>

\* the zip is exhausted
DetectEnd ==
    /\ pc = "ds_detect"
    /\ pair_i + 1 >= Len(opponent_snapshots)
    /\ pc' = "ds_respond"
    /\ UNCHANGED <<reportVars, prodVars, argVars, snapVars, switchVars, idleVars, timingVars>>

\* one iteration of "for event in switch_events" (lines 472-502)
RespondEvent ==
    /\ pc = "ds_respond"
    /\ event_i < Len(switch_events)
    /\ LET o == Outcome(switch_events[event_i + 1], you_snapshots)
       IN  /\ response_delays' = response_delays \o o.responses
           /\ missed' = missed \o o.missed
    /\ event_i' = event_i + 1
    /\ UNCHANGED <<reportVars, prodVars, pc, argVars, snapVars, idleVars, timingVars, opponent_snapshots,
                   you_snapshots, switch_events, pair_i>>

\* lines 503-507: return
SwitchReturn ==
    /\ pc = "ds_respond"
    /\ event_i = Len(switch_events)
    /\ pc' = "done"
    /\ UNCHANGED <<reportVars, prodVars, argVars, snapVars, switchVars, idleVars, timingVars>>

SwitchNext == DetectPair \/ DetectEnd \/ RespondEvent \/ SwitchReturn

SpecSwitch == SwitchInit /\ [][SwitchNext]_vars

----------------------------------------------------------------------------
(* Properties of _detect_switches *)

\* number of entries of list q whose opponent_line is l
CountLine(q, l) == Cardinality({i \in DOMAIN q : q[i].opponent_line = l})

SwitchLines == {switch_events[i].opponent_line : i \in DOMAIN switch_events}

\* C1: every SwitchEvent consumed so far has added exactly one entry to
\* exactly one of the two lists: per opponent line, the responses plus the
\* missed opportunities number the consumed events of that line, and on
\* return every event is consumed, so |switch_events| = |responses| + |missed|.
C1_ExactlyOneOutcome ==
    /\ Len(response_delays) + Len(missed) = event_i
    /\ \A l \in SwitchLines :
           CountLine(response_delays, l) + CountLine(missed, l)
             = CountLine(SubSeq(switch_events, 1, event_i), l)
    /\ pc = "done" => event_i = Len(switch_events)

\* a run that returned a response, a missed opportunity for a line with
\* counters, and a missed opportunity for a line without table entry
C1_Witness ==
    /\ pc = "done"
    /\ response_delays # <<>>
    /\ \E i \in DOMAIN missed : missed[i].suggested_counters = <<>>
    /\ Len(switch_events) = Len(response_delays) + Len(missed)

\* the viewer snapshots that answer event e: at or after it, with some
\* counter line of e's line at 3 or more
Answering(e) ==
    {j \in DOMAIN you_snapshots :
        /\ you_snapshots[j].time >= e.time
        /\ \E k \in DOMAIN Counters(e.opponent_line) :
               Get(you_snapshots[j].totals_by_line,
                   Counters(e.opponent_line)[k], 0) >= 3}

\* the response the claim describes for e, when Answering(e) is not empty
ExpectedResponse(e) ==
    LET j == CHOOSE x \in Answering(e) :
                 \A y \in Answering(e) :
                     you_snapshots[x].time <= you_snapshots[y].time
        cs == Counters(e.opponent_line)
        k == CHOOSE x \in DOMAIN cs :
                 /\ Get(you_snapshots[j].totals_by_line, cs[x], 0) >= 3
                 /\ \A y \in 1..(x - 1) :
                        Get(you_snapshots[j].totals_by_line, cs[y], 0) < 3
    IN  [opponent_line |-> e.opponent_line,
         your_line     |-> cs[k],
         response_time |-> you_snapshots[j].time,
         delay         |-> you_snapshots[j].time - e.time,
         confidence    |-> "low"]

RECURSIVE ExpectedResponses(_)
\* the expected responses of the first n events, in event order
ExpectedResponses(n) ==
    IF n = 0 THEN <<>>
    ELSE ExpectedResponses(n - 1) \o
            (IF Answering(switch_events[n]) = {} THEN <<>>
             ELSE <<ExpectedResponse(switch_events[n])>>)

\* C7: the ResponseRecords are, in event order, those of the events that
\* have an answering viewer snapshot, each taken from the chronologically
\* first such snapshot and the first counter in table order with count >= 3,
\* with delay = response_time - event time >= 0.
C7_FirstQualifyingResponse ==
    /\ response_delays = ExpectedResponses(event_i)
    /\ \A i \in DOMAIN response_delays : response_delays[i].delay >= 0

\* the scenario of the claim: knight_line 1 -> 7 at t=420, pikeman_line below
\* 3 before t=480 and at 3 there, answered with delay 60
C7_Witness ==
    /\ pc = "done"
    /\ Len(opponent_snapshots) >= 2
    /\ Get(opponent_snapshots[1].totals_by_line, "knight_line", 0) = 1
    /\ Get(opponent_snapshots[2].totals_by_line, "knight_line", 0) = 7
    /\ opponent_snapshots[2].time = 420
    /\ \E j \in DOMAIN you_snapshots :
           /\ you_snapshots[j].time = 480
           /\ Get(you_snapshots[j].totals_by_line, "pikeman_line", 0) = 3
           /\ \A i \in 1..(j - 1) :
                  /\ Get(you_snapshots[i].totals_by_line, "pikeman_line", 0) < 3
                  /\ Get(you_snapshots[i].totals_by_line, "camel_line", 0) < 3
    /\ \E i \in DOMAIN response_delays :
           /\ response_delays[i].opponent_line = "knight_line"
           /\ response_delays[i].your_line = "pikeman_line"
           /\ response_delays[i].response_time = 480
           /\ response_delays[i].delay = 60

\* every line that occurs in an opponent snapshot
OppLines ==
    UNION {DOMAIN opponent_snapshots[i].totals_by_line : i \in DOMAIN opponent_snapshots}

\* the SwitchEvents the claim describes for the consecutive pair (n, n + 1)
ClaimedEvents(n) ==
    LET prev == opponent_snapshots[n].totals_by_line
        curr == opponent_snapshots[n + 1].totals_by_line
    IN  {[time          |-> opponent_snapshots[n + 1].time,
          opponent_line |-> l,
          delta         |-> Get(curr, l, 0) - Get(prev, l, 0),
          confidence    |-> "low"] :
            l \in {x \in OppLines :
                      /\ x \notin {"villager", "fishing_ship", "trade", "unknown"}
                      /\ Get(curr, x, 0) - Get(prev, x, 0) >= 5
                      /\ Get(prev, x, 0) <= 2}}

\* C8: the SwitchEvents emitted for the pairs consumed so far are exactly
\* one per (pair, line) with a non-excluded line, an increase of at least 5
\* and an earlier count of at most 2 (0 when absent); each carries the later
\* snapshot's time, the increase as delta and confidence "low".
C8_SwitchEventIff ==
    LET claimed == UNION {ClaimedEvents(n) : n \in 1..pair_i}
    IN  /\ {switch_events[i] : i \in DOMAIN switch_events} = claimed
        /\ Len(switch_events) = Cardinality(claimed)
        /\ pc # "ds_detect" => pair_i = Max(Len(opponent_snapshots) - 1, 0)

\* two pairs: in the first a line at 2 rises by 5 (event at 420); in the
\* second a line absent before jumps by 6 (event at 600), an excluded line
\* jumps as much (no event), and the first line stays level (no event)
C8_Witness ==
    /\ pc = "done"
    /\ Len(opponent_snapshots) = 3
    /\ opponent_snapshots[1].totals_by_line = DictOf([knight_line |-> 2])
    /\ opponent_snapshots[2].totals_by_line = OppTotals(7, FALSE)
    /\ opponent_snapshots[3].totals_by_line = OppTotals(7, TRUE)
    /\ switch_events =
          <<[time |-> 420, opponent_line |-> "knight_line", delta |-> 5,
             confidence |-> "low"],
            [time |-> 600, opponent_line |-> "monk_line", delta |-> 6,
             confidence |-> "low"]>>

----------------------------------------------------------------------------
(* _collect_tc_idle *)

\* nominal villager production cycle (lines 378, 380)
ProductionCycle == 25

\* gaps up to the tolerance are not idle (line 379)
IdleTolerance == 5

\* lines 354-364: the four age spans, a None boundary replaced by 0 (start)
\* or by the duration (end)
AgeBounds(ages, dur) ==
    LET lo(o) == IF o = None THEN 0 ELSE Val(o)
        hi(o) == IF o = None THEN dur ELSE Val(o)
    IN  [Dark     |-> [start |-> 0,                 end |-> hi(ages.Feudal)],
         Feudal   |-> [start |-> lo(ages.Feudal),   end |-> hi(ages.Castle)],
         Castle   |-> [start |-> lo(ages.Castle),   end |-> hi(ages.Imperial)],
         Imperial |-> [start |-> lo(ages.Imperial), end |-> dur]]

\* mutant of Overlap: the gap is not clipped to the age span
OverlapUnclipped(start, end, start_age, end_age) == Max(0, end - start)

\* line 365
Overlap(start, end, start_age, end_age) ==
    Max(0, Min(end, end_age) - Max(start, start_age))

\* add_idle (lines 350-366) on the accumulator acc = [total, per_age]
AddIdle(acc, start, end, ages, dur) ==
    LET bounds == AgeBounds(ages, dur)
    IN  [total   |-> acc.total + Max(0, end - start),
         per_age |-> [label \in DOMAIN acc.per_age |->
                         acc.per_age[label]
                           + Overlap(start, end, bounds[label].start, bounds[label].end)]]

\* mutant of IdleStart: the production cycle is not taken off the gap
IdleStartAtLast(last_time) == last_time

\* where an idle gap starts: one production cycle after the last production
IdleStart(last_time) == last_time + ProductionCycle

RECURSIVE WalkGaps(_, _, _, _, _)
\* the for loop of lines 377-381 (and 386-391), then the tail of lines
\* 382-383 (and 392-393): the accumulator after one timeline
WalkGaps(times, last_time, acc, ages, dur) ==
    IF times = <<>>
    THEN IF last_time # 0 /\ dur > IdleStart(last_time)
         THEN AddIdle(acc, IdleStart(last_time), dur, ages, dur)
         ELSE acc
    ELSE LET time == Head(times)
             gap == time - IdleStart(last_time)
         IN  WalkGaps(Tail(times), time,
                      IF gap > IdleTolerance
                      THEN AddIdle(acc, IdleStart(last_time), time, ages, dur)
                      ELSE acc,
                      ages, dur)

\* lines 376-383: one timeline, starting from last_time = 0
Timeline(times, acc, ages, dur) == WalkGaps(times, 0, acc, ages, dur)

RECURSIVE TimesOn(_, _)
\* lines 370-373 for one town center: the time of every villager event, once
\* per occurrence of the id in the event's object_ids
TimesOn(evs, tc) ==
    IF evs = <<>> THEN <<>>
    ELSE [i \in 1..Cardinality({j \in DOMAIN Head(evs).object_ids :
                                   Head(evs).object_ids[j] = tc})
             |-> Head(evs).time] \o TimesOn(Tail(evs), tc)

RECURSIVE SortedTimes(_)
\* sorted(times) for a list of integers
SortedTimes(times) ==
    IF times = <<>> THEN <<>>
    ELSE LET rest == SortedTimes(Tail(times))
             lower == SelectSeq(rest, LAMBDA t : t <= Head(times))
             upper == SelectSeq(rest, LAMBDA t : t > Head(times))
         IN  lower \o <<Head(times)>> \o upper

\* bounds and input sets
MaxIdleEvents == 4

Villager(t, ids) == [time |-> t, line |-> "villager", object_ids |-> ids]

IdleEvents ==
    {Villager(t, ids) : t \in {0, 25, 50, 300}, ids \in {<<1>>, <<2>>}}
      \cup {[time |-> 50, line |-> "archer_line", object_ids |-> <<1>>]}

\* _collect_unit_events returns the events sorted by time (line 124)
IdleEventLists ==
    {q \in SeqsUpTo(IdleEvents, MaxIdleEvents) :
        \A i \in 1..(Len(q) - 1) : q[i].time <= q[i + 1].time}

Build(what, ids) == [time |-> 0, building |-> what, object_ids |-> ids]

IdleBuilds ==
    {<<>>,
     <<Build("Town Center", <<1>>)>>,
     <<Build("Town Center", <<1>>), Build("Town Center", <<2>>)>>,
     <<Build("Barracks", <<1>>), Build("Town Center", <<>>)>>}

\* a match ending before, just after and long after the last production cycle
IdleDurations == {320, 328, 900}

IdleAgeTimes ==
    {[Feudal |-> None,      Castle |-> None,      Imperial |-> None],
     [Feudal |-> Some(300), Castle |-> None,      Imperial |-> None],
     [Feudal |-> Some(300), Castle |-> Some(600), Imperial |-> None]}

IdleInit ==
    /\ pc = "idle_start"
    /\ ReportParked
    /\ ProdParked
    /\ SnapParked
    /\ SwitchParked
    /\ TimingParked
    /\ unit_events \in IdleEventLists
    /\ builds \in IdleBuilds
    /\ duration \in IdleDurations
    /\ age_times \in IdleAgeTimes
    /\ villager_events = <<>>
    /\ tc_ids = {}
    /\ had_ids = FALSE
    /\ idle_total = 0
    /\ per_age = NoIdle
    /\ events_by_tc = EmptyDict
    /\ tcs_left = {}

\* lines 342-348
IdleSetup ==
    /\ pc = "idle_start"
    /\ villager_events' =
           SortedByTime(SelectSeq(unit_events, LAMBDA e : e.line = "villager"))
    /\ tc_ids' = UNION {{builds[i].object_ids[j] : j \in DOMAIN builds[i].object_ids} :
                           i \in {k \in DOMAIN builds : builds[k].building = "Town Center"}}
    /\ had_ids' = (tc_ids' # {})
    /\ idle_total' = 0
    /\ per_age' = NoIdle
    /\ pc' = IF had_ids' THEN "idle_group" ELSE "idle_aggregate"
    /\ UNCHANGED <<reportVars, prodVars, argVars, snapVars, switchVars, timingVars, builds, events_by_tc, tcs_left>>

\* lines 369-373: the production times of every town center
IdleGroup ==
    /\ pc = "idle_group"
    /\ events_by_tc' = [tc \in tc_ids |-> TimesOn(villager_events, tc)]
    /\ tcs_left' = tc_ids
    /\ pc' = "idle_tcs"
    /\ UNCHANGED <<reportVars, prodVars, argVars, snapVars, switchVars, timingVars, builds, villager_events, tc_ids,
                   had_ids, idle_total, per_age>>

\* one iteration of "for times in events_by_tc.values()" (lines 374-383)
IdleTc ==
    /\ pc = "idle_tcs"
    /\ \E tc \in tcs_left :
           LET acc == Timeline(SortedTimes(events_by_tc[tc]),
                               [total |-> idle_total, per_age |-> per_age],
                               age_times, duration)
           IN  /\ idle_total' = acc.total
               /\ per_age' = acc.per_age
               /\ tcs_left' = tcs_left \ {tc}
    /\ UNCHANGED <<reportVars, prodVars, pc, argVars, snapVars, switchVars, timingVars, builds, villager_events,
                   tc_ids, had_ids, events_by_tc>>

\* lines 385-393: one timeline over all villager events
IdleAggregate ==
    /\ pc = "idle_aggregate"
    /\ LET acc == Timeline([i \in DOMAIN villager_events |-> villager_events[i].time],
                           [total |-> idle_total, per_age |-> per_age],
                           age_times, duration)
       IN  /\ idle_total' = acc.total
           /\ per_age' = acc.per_age
    /\ pc' = "idle_return"
    /\ UNCHANGED <<reportVars, prodVars, argVars, snapVars, switchVars, timingVars, builds, villager_events, tc_ids,
                   had_ids, events_by_tc, tcs_left>>

\* lines 395-399: return {total, by_age}, not had_ids
IdleReturn ==
    /\ \/ pc = "idle_tcs" /\ tcs_left = {}
       \/ pc = "idle_return"
    /\ pc' = "done"
    /\ UNCHANGED <<reportVars, prodVars, argVars, snapVars, switchVars, idleVars, timingVars>>

IdleNext == IdleSetup \/ IdleGroup \/ IdleTc \/ IdleAggregate \/ IdleReturn

SpecIdle == IdleInit /\ [][IdleNext]_vars

----------------------------------------------------------------------------
(* Properties of _collect_tc_idle *)

\* wall-clock length of an age bucket: from the previous click (0 for Dark,
\* 0 when null) to the next click (the duration for Imperial or when null)
SpanLength(label) ==
    LET from == IF label = "Dark" THEN None
                ELSE IF label = "Feudal" THEN age_times.Feudal
                ELSE IF label = "Castle" THEN age_times.Castle
                ELSE age_times.Imperial
        to   == IF label = "Dark" THEN age_times.Feudal
                ELSE IF label = "Feudal" THEN age_times.Castle
                ELSE IF label = "Castle" THEN age_times.Imperial
                ELSE None
        a    == IF from = None THEN 0 ELSE from[1]
        b    == IF to = None THEN duration ELSE to[1]
    IN  IF b >= a THEN b - a ELSE 0

AgeLabels == {"Dark", "Feudal", "Castle", "Imperial"}

NoAgeClicks == [Feudal |-> None, Castle |-> None, Imperial |-> None]

\* the timelines the idle seconds are summed over: one per town-center
\* object id, or the single aggregate timeline when no id is known
Timelines == IF tc_ids = {} THEN 1 ELSE Cardinality(tc_ids)

\* C4 as claimed: the idle seconds of each age bucket never exceed the
\* wall-clock length of the bucket's span.
C4_IdleWithinSpan ==
    pc # "idle_start" => \A label \in AgeLabels : per_age[label] <= SpanLength(label)

\* C4 as amended: the idle seconds of each age bucket never exceed the
\* length of the bucket's span times the number of timelines summed (the
\* number of town-center object ids, 1 for the aggregate timeline).
C4_IdleWithinSpanPerTimeline ==
    pc # "idle_start" =>
        \A label \in AgeLabels : per_age[label] <= Timelines * SpanLength(label)

\* two town centers idle at the same time: a bucket bounded by a non-null
\* click on one side and a null one on the other holds more idle seconds
\* than its span is long
C4_Witness ==
    /\ pc = "done"
    /\ Cardinality(tc_ids) = 2
    /\ age_times.Feudal # None /\ age_times.Castle = None
    /\ per_age.Feudal > SpanLength("Feudal")
    /\ per_age.Dark > 0

\* the scenario of C5: duration 900, one town center with a known id, and
\* villager productions on it at t = 0, 25, 50, 300
C5_Scenario ==
    /\ pc = "done"
    /\ duration = 900
    /\ builds = <<Build("Town Center", <<1>>)>>
    /\ unit_events = <<Villager(0, <<1>>), Villager(25, <<1>>),
                       Villager(50, <<1>>), Villager(300, <<1>>)>>

\* C5 as claimed: in the scenario nothing is idle before t=300 and the
\* trailing gap gives 575 idle seconds (so 575 in all; with the Feudal click
\* at 300 the Dark bucket is the time before t=300).
C5_NoIdleBefore300 ==
    C5_Scenario =>
        /\ idle_total = 575
        /\ age_times.Feudal = Some(300) => per_age.Dark = 0

\* C5 as amended: in the scenario the 250 s between the productions at 50
\* and 300 count as 300 - 50 - 25 = 225 idle seconds before t=300, and the
\* trailing gap gives 900 - 300 - 25 = 575, 800 in all.
C5_ScenarioIdle ==
    C5_Scenario =>
        /\ idle_total = 800
        /\ age_times.Feudal = Some(300) => per_age.Dark = 225
        /\ age_times.Feudal = Some(300) /\ age_times.Castle = None
              => per_age.Feudal = 575

C5_Witness ==
    /\ C5_Scenario
    /\ age_times.Feudal = Some(300)
    /\ age_times.Castle = None
    /\ idle_total = 800

\* the production times of the timelines walked: one list per town-center
\* object id, or the list of all villager events when no id is known
TimelineOf(tc) == SortedTimes(TimesOn(villager_events, tc))

AggregateTimeline == [i \in DOMAIN villager_events |-> villager_events[i].time]

RECURSIVE GapIdle(_, _)
\* the idle seconds of the gaps between productions under the rule
\* "next - previous - 25, counted when above 5", from 0 on
GapIdle(times, previous) ==
    IF times = <<>> THEN 0
    ELSE LET gap == Head(times) - previous - ProductionCycle
         IN  (IF gap > IdleTolerance THEN gap ELSE 0)
                 + GapIdle(Tail(times), Head(times))

\* the tail under the same rule, from the last production time L (0 without
\* production) to the duration
RuleTail(times) ==
    LET L   == IF times = <<>> THEN 0 ELSE times[Len(times)]
        gap == duration - L - ProductionCycle
    IN  IF gap > IdleTolerance THEN gap ELSE 0

RECURSIVE RuleIdle(_)
\* gaps and tail under the rule, summed over the town centers tcs
RuleIdle(tcs) ==
    IF tcs = {} THEN 0
    ELSE LET tc == CHOOSE x \in tcs : TRUE
         IN  GapIdle(TimelineOf(tc), 0) + RuleTail(TimelineOf(tc))
                 + RuleIdle(tcs \ {tc})

\* C14: the tail of every timeline (each town center, or the aggregate)
\* contributes duration - L - 25 idle seconds exactly when that is above 5,
\* L being the last production time and 0 without production, and nothing
\* otherwise: the total is the gaps plus these tails.
C14_TailFollowsGapRule ==
    pc = "done" =>
        idle_total =
            IF had_ids THEN RuleIdle(tc_ids)
            ELSE GapIdle(AggregateTimeline, 0) + RuleTail(AggregateTimeline)

\* C14: one timeline without any villager event: the rule gives
\* duration - 25 idle seconds, the detector none
C14_NoEventNoTail ==
    /\ pc = "done"
    /\ villager_events = <<>>
    /\ duration = 900
    /\ idle_total = 0

\* C14: a last production 28 seconds before the end: a tail of 3 seconds,
\* within the tolerance, is counted
C14_TailWithinTolerance ==
    /\ pc = "done"
    /\ ~had_ids
    /\ Len(villager_events) = 1
    /\ villager_events[1].time = 300
    /\ duration = 328
    /\ idle_total = 275 + 3

\* C16: the idle seconds of the four age buckets add up to the total.
C16_ByAgePartitionsTotal ==
    pc = "done" =>
        per_age.Dark + per_age.Feudal + per_age.Castle + per_age.Imperial
            = idle_total

\* C16: without any age click every bucket spans the whole match and
\* receives every idle second
C16_CountedFourTimes ==
    /\ pc = "done"
    /\ age_times = NoAgeClicks
    /\ idle_total > 0
    /\ \A label \in AgeLabels : per_age[label] = idle_total

----------------------------------------------------------------------------
(* extract_timings *)

\* research durations (line 192)
FeudalResearch == 130

CastleResearch == 160

ImperialResearch == 190

durations ==
    [Feudal |-> FeudalResearch, Castle |-> CastleResearch, Imperial |-> ImperialResearch]

\* tech_map (lines 170-174)
tech_map ==
    [x \in {"Feudal Age", "Castle Age", "Imperial Age"} |->
        IF x = "Feudal Age" THEN "Feudal"
        ELSE IF x = "Castle Age" THEN "Castle" ELSE "Imperial"]

\* dict.get(key) on a dict of Optional values: None when the key is missing
GetOpt(d, k) == IF k \in DOMAIN d THEN d[k] ELSE None

\* Python's "a or b" on Optional[int]: b when a is None or 0
PyOr(a, b) == IF a = None \/ a = Some(0) THEN b ELSE a

\* _extract_uptimes (lines 147-156); player_index counts from 0
ExtractUptimes(data_uptimes, player) ==
    IF player < Len(data_uptimes)
    THEN [Feudal   |-> data_uptimes[player + 1].feudal,
          Castle   |-> data_uptimes[player + 1].castle,
          Imperial |-> data_uptimes[player + 1].imperial]
    ELSE EmptyDict

\* _player_actions (lines 94-96)
PlayerActions(acts, player) == SelectSeq(acts, LAMBDA a : a.player = player)

RECURSIVE DeriveAgeClicks(_, _)
\* _derive_age_clicks (lines 169-185): a later action overwrites an earlier
DeriveAgeClicks(acts, starts) ==
    IF acts = <<>> THEN starts
    ELSE LET a == Head(acts)
         IN  DeriveAgeClicks(Tail(acts),
                 IF /\ a.type \in {"RESEARCH", "DE_RESEARCH"}
                    /\ a.tech \in DOMAIN tech_map
                    /\ a.timestamp # None
                 THEN Put(starts, tech_map[a.tech], a.timestamp)
                 ELSE starts)

\* _timing_entry (lines 159-166)
TimingEntry(start, dur) ==
    [click_time      |-> start,
     completion_time |-> IF start # None /\ dur # None
                         THEN Some(Val(start) + Val(dur)) ELSE None]

\* bounds and input sets
MaxActions == 2

MaxPlayers == 2

Research(p, tech, ts) == [player |-> p, type |-> "RESEARCH", tech |-> tech, timestamp |-> ts]

TimingActions ==
    {Research(0, "Feudal Age", Some(0)),
     Research(0, "Feudal Age", Some(600)),
     Research(0, "Feudal Age", None),
     Research(0, "Loom", Some(50)),
     Research(1, "Feudal Age", Some(500)),
     [player |-> 0, type |-> "DE_RESEARCH", tech |-> "Castle Age", timestamp |-> Some(900)],
     [player |-> 0, type |-> "TRAIN", tech |-> "Feudal Age", timestamp |-> Some(100)]}

UptimeRecords ==
    [feudal : {None, Some(0), Some(650)}, castle : {None, Some(1000)}, imperial : {None}]

TimingInit ==
    /\ pc = "timing_start"
    /\ ReportParked
    /\ ProdParked
    /\ ArgsParked
    /\ SnapParked
    /\ SwitchParked
    /\ IdleParked
    /\ actions \in SeqsUpTo(TimingActions, MaxActions)
    /\ uptimes_data \in SeqsUpTo(UptimeRecords, MaxPlayers)
    /\ player_index \in 0..(MaxPlayers - 1)
    /\ clicks = EmptyDict
    /\ uptimes = EmptyDict
    /\ timings = EmptyDict

\* lines 189-191
TimingCollect ==
    /\ pc = "timing_start"
    /\ uptimes' = ExtractUptimes(uptimes_data, player_index)
    /\ clicks' = DeriveAgeClicks(PlayerActions(actions, player_index), EmptyDict)
    /\ pc' = "timing_entries"
    /\ UNCHANGED <<reportVars, prodVars, argVars, snapVars, switchVars, idleVars, actions, uptimes_data,
                   player_index, timings>>

\* lines 192-198
TimingEntries ==
    /\ pc = "timing_entries"
    /\ timings' = [age \in {"Feudal", "Castle", "Imperial"} |->
                      TimingEntry(PyOr(GetOpt(clicks, age), GetOpt(uptimes, age)),
                                  Some(durations[age]))]
    /\ pc' = "timing_return"
    /\ UNCHANGED <<reportVars, prodVars, argVars, snapVars, switchVars, idleVars, actions, uptimes_data,
                   player_index, clicks, uptimes>>

\* line 199
TimingReturn ==
    /\ pc = "timing_return"
    /\ pc' = "done"
    /\ UNCHANGED <<reportVars, prodVars, argVars, snapVars, switchVars, idleVars, timingVars>>

TimingNext == TimingCollect \/ TimingEntries \/ TimingReturn

SpecTiming == TimingInit /\ [][TimingNext]_vars

----------------------------------------------------------------------------
(* Properties of extract_timings *)

\* the timestamps of the player's age-up research actions for an age
ResearchStamps(age) ==
    {actions[i].timestamp[1] :
        i \in {j \in DOMAIN actions :
                  /\ actions[j].player = player_index
                  /\ actions[j].type \in {"RESEARCH", "DE_RESEARCH"}
                  /\ actions[j].tech = age \o " Age"
                  /\ actions[j].timestamp # None}}

\* the player's uptime record for an age, None when there is none
UptimeOf(age) ==
    IF player_index >= Len(uptimes_data) THEN None
    ELSE IF age = "Feudal" THEN uptimes_data[player_index + 1].feudal
    ELSE IF age = "Castle" THEN uptimes_data[player_index + 1].castle
    ELSE uptimes_data[player_index + 1].imperial

\* C9: for each age, click_time is the timestamp of an explicit age-up
\* research action of the player whenever one with a timestamp exists
\* (0 included), and the uptime record only otherwise; completion_time is
\* click_time + 130 / 160 / 190 when click_time is known; with neither
\* source both are None.
C9_ClickPrefersAction ==
    pc = "done" =>
        \A age \in {"Feudal", "Castle", "Imperial"} :
            LET t == timings[age]
                plus == IF age = "Feudal" THEN 130 ELSE IF age = "Castle" THEN 160 ELSE 190
            IN  /\ ResearchStamps(age) # {} =>
                      t.click_time # None /\ t.click_time[1] \in ResearchStamps(age)
                /\ ResearchStamps(age) = {} => t.click_time = UptimeOf(age)
                /\ t.click_time # None => t.completion_time = <<t.click_time[1] + plus>>
                /\ t.click_time = None => t.completion_time = None


----------------------------------------------------------------------------
(* coerce_seconds (time_utils.py) *)

\* a function's outcome: a returned value or a raised exception
Return(v) == [raised |-> FALSE, value |-> v]

Raise(exc) == [raised |-> TRUE, exc |-> exc]

\* decoded JSON values of the "duration" field; a str is its characters
NoneValue == [kind |-> "none"]

IntValue(n) == [kind |-> "int", v |-> n]

StrValue(chars) == [kind |-> "str", s |-> chars]

DigitChars == <<"0", "1", "2", "3", "4", "5", "6", "7", "8", "9">>

Digits == {DigitChars[i] : i \in DOMAIN DigitChars}

DigitVal(c) == (CHOOSE i \in DOMAIN DigitChars : DigitChars[i] = c) - 1

RECURSIVE LStrip(_)
LStrip(chars) ==
    IF chars # <<>> /\ Head(chars) = " " THEN LStrip(Tail(chars)) ELSE chars

RECURSIVE RStrip(_)
RStrip(chars) ==
    IF chars # <<>> /\ chars[Len(chars)] = " "
    THEN RStrip(SubSeq(chars, 1, Len(chars) - 1))
    ELSE chars

\* str.strip()
Strip(chars) == RStrip(LStrip(chars))

\* str.replace(c, "", 1)
RemoveFirst(chars, c) ==
    IF \E i \in DOMAIN chars : chars[i] = c
    THEN LET i == CHOOSE j \in DOMAIN chars :
                      chars[j] = c /\ \A k \in 1..(j - 1) : chars[k] # c
         IN  SubSeq(chars, 1, i - 1) \o SubSeq(chars, i + 1, Len(chars))
    ELSE chars

\* str.isdigit()
IsDigit(chars) == chars # <<>> /\ \A i \in DOMAIN chars : chars[i] \in Digits

RECURSIVE Split(_, _)
\* str.split(sep)
Split(chars, sep) ==
    IF \E i \in DOMAIN chars : chars[i] = sep
    THEN LET i == CHOOSE j \in DOMAIN chars :
                      chars[j] = sep /\ \A k \in 1..(j - 1) : chars[k] # sep
         IN  <<SubSeq(chars, 1, i - 1)>>
                 \o Split(SubSeq(chars, i + 1, Len(chars)), sep)
    ELSE <<chars>>

RECURSIVE DigitsValue(_)
DigitsValue(chars) ==
    IF chars = <<>> THEN 0
    ELSE 10 * DigitsValue(SubSeq(chars, 1, Len(chars) - 1))
             + DigitVal(chars[Len(chars)])

\* int(text) for unsigned text: the number, or ValueError
ParseInt(chars) ==
    IF IsDigit(Strip(chars)) THEN Return(DigitsValue(Strip(chars)))
    ELSE Raise("ValueError")

\* int(float(text)) for unsigned decimal text: the whole part of the number
\* (int() truncates, and the value is not negative), or ValueError
ParseFloatWhole(chars) ==
    LET text == Strip(chars)
    IN  IF IsDigit(RemoveFirst(text, "."))
        THEN Return(DigitsValue(Head(Split(text, "."))))
        ELSE Raise("ValueError")

\* lines 19-30: the "m:s" and "h:m:s" forms; int(hours * 3600 + minutes * 60
\* + seconds) is the sum of the whole parts, all of them being non-negative
CoerceClock(parts) ==
    LET n       == Len(parts)
        hours   == IF n = 3 THEN ParseInt(parts[1]) ELSE Return(0)
        minutes == ParseInt(parts[n - 1])
        seconds == ParseFloatWhole(parts[n])
    IN  IF hours.raised \/ minutes.raised \/ seconds.raised
        THEN Raise("ValueError")
        ELSE Return(hours.value * 3600 + minutes.value * 60 + seconds.value)

\* the same, with text that is no time read as 0 seconds
CoerceTextLenient(chars) ==
    LET stripped == Strip(chars)
        parts    == Split(stripped, ":")
    IN  IF stripped = <<>> THEN Return(0)
        ELSE IF IsDigit(RemoveFirst(stripped, "."))
             THEN ParseFloatWhole(stripped)
        ELSE IF Len(parts) \in {2, 3} /\ ~CoerceClock(parts).raised
             THEN CoerceClock(parts)
        ELSE Return(0)

\* lines 13-31: the str branch and the final raise
CoerceText(chars) ==
    LET stripped == Strip(chars)
        parts    == Split(stripped, ":")
    IN  IF stripped = <<>> THEN Return(0)
        ELSE IF IsDigit(RemoveFirst(stripped, "."))
             THEN ParseFloatWhole(stripped)
        ELSE IF Len(parts) \in {2, 3} THEN CoerceClock(parts)
        ELSE Raise("ValueError")

coerce_seconds(value) ==
    CASE value.kind = "none" -> Return(0)
      [] value.kind = "int"  -> Return(value.v)
      [] value.kind = "str"  -> CoerceText(value.s)

\* Python truthiness of a decoded value
Truthy(value) ==
    CASE value.kind = "none" -> FALSE
      [] value.kind = "int"  -> value.v # 0
      [] value.kind = "str"  -> value.s # <<>>

\* line 538: coerce_seconds(match_info.get("duration") or 0) or 0
CoerceDuration(raw) ==
    coerce_seconds(IF Truthy(raw) THEN raw ELSE IntValue(0))

----------------------------------------------------------------------------
(* find_player *)

UpperChars == <<"A", "B", "C", "L", "O", "Y">>

LowerChars == <<"a", "b", "c", "l", "o", "y">>

\* str.lower(), letter by letter
LowerChar(c) ==
    IF \E i \in DOMAIN UpperChars : UpperChars[i] = c
    THEN LowerChars[CHOOSE i \in DOMAIN UpperChars : UpperChars[i] = c]
    ELSE c

Lower(chars) == [i \in DOMAIN chars |-> LowerChar(chars[i])]

\* next(p for p in players if p != player): StopIteration when there is none
NextOther(plist, player) ==
    IF \E i \in DOMAIN plist : plist[i] # player
    THEN Return(plist[CHOOSE i \in DOMAIN plist :
                          plist[i] # player
                          /\ \A k \in 1..(i - 1) : plist[k] = player])
    ELSE Raise("StopIteration")

\* the return of a (player, opponent) pair, or the exception of the next()
Pair(player, other) ==
    IF other.raised THEN other
    ELSE Return([you |-> player, opponent |-> other.value])

\* lines 61-66: the first player whose lower-cased name is the lower-cased name
NameMatches(plist, name) ==
    {i \in DOMAIN plist : Lower(plist[i].name) = Lower(name)}

\* lines 67-72: the list index of the 1-based position
PositionIndex(position) == Max(0, position - 1)

\* lines 73-75
FirstPlayers(plist) ==
    Return([you |-> plist[1],
            opponent |-> IF Len(plist) > 1 THEN plist[2] ELSE plist[1]])

find_player(plist, name, position) ==
    IF name # None /\ Val(name) # <<>> /\ NameMatches(plist, Val(name)) # {}
    THEN LET i == CHOOSE j \in NameMatches(plist, Val(name)) :
                      \A k \in NameMatches(plist, Val(name)) : j <= k
         IN  Pair(plist[i], NextOther(plist, plist[i]))
    ELSE IF position # None /\ Val(position) # 0
            /\ PositionIndex(Val(position)) < Len(plist)
    THEN LET player == plist[PositionIndex(Val(position)) + 1]
         IN  Pair(player, NextOther(plist, player))
    ELSE FirstPlayers(plist)

\* list.index(value), 0-based
IndexOf(plist, player) ==
    (CHOOSE i \in DOMAIN plist :
         plist[i] = player /\ \A k \in 1..(i - 1) : plist[k] # player) - 1


----------------------------------------------------------------------------
(* analyze_replay: player identification, duration, idle detectors, warnings *)

UNIT_LINE_MAP ==
    [Villager |-> "villager", Archer |-> "archer_line",
     Crossbowman |-> "archer_line"]

PRODUCTION_BUILDINGS == {"Barracks", "Archery Range", "Stable"}

\* _unit_line; None is the absent name
UnitLine(unit_name) ==
    IF unit_name = None \/ Val(unit_name) \notin DOMAIN UNIT_LINE_MAP
    THEN "unknown"
    ELSE UNIT_LINE_MAP[Val(unit_name)]

\* _collect_unit_events
CollectUnitEvents(acts) ==
    LET kept == SelectSeq(acts, LAMBDA a :
                    a.type \in {"TRAIN", "DE_QUEUE", "CREATE"}
                    /\ a.timestamp # None)
    IN  SortedByTime([i \in DOMAIN kept |->
                         [time |-> Val(kept[i].timestamp),
                          line |-> UnitLine(kept[i].name),
                          object_ids |-> kept[i].object_ids]])

\* _collect_build_events
CollectBuildEvents(acts) ==
    LET kept == SelectSeq(acts, LAMBDA a :
                    a.type = "BUILD" /\ a.timestamp # None)
    IN  SortedByTime([i \in DOMAIN kept |->
                         [time |-> Val(kept[i].timestamp),
                          building |-> Val(kept[i].name),
                          object_ids |-> kept[i].object_ids]])

\* line 344-345: the object ids of the Town Center build events
TcIds(blds) ==
    UNION {{blds[i].object_ids[j] : j \in DOMAIN blds[i].object_ids} :
              i \in {k \in DOMAIN blds : blds[k].building = "Town Center"}}

RECURSIVE TcTimelines(_, _, _, _, _)
\* lines 374-383: the accumulator after the timelines of the town centers tcs
TcTimelines(tcs, evs, acc, ages, dur) ==
    IF tcs = {} THEN acc
    ELSE LET tc == CHOOSE x \in tcs : TRUE
         IN  TcTimelines(tcs \ {tc}, evs,
                         Timeline(SortedTimes(TimesOn(evs, tc)), acc, ages, dur),
                         ages, dur)

\* _collect_tc_idle as one function: the total, by_age and "not had_ids"
CollectTcIdle(units, blds, dur, ages) ==
    LET evs  == SortedByTime(SelectSeq(units, LAMBDA e : e.line = "villager"))
        zero == [total |-> 0, per_age |-> NoIdle]
        acc  == IF TcIds(blds) # {}
                THEN TcTimelines(TcIds(blds), evs, zero, ages, dur)
                ELSE Timeline([i \in DOMAIN evs |-> evs[i].time], zero, ages, dur)
    IN  [total |-> acc.total, by_age |-> acc.per_age,
         missing |-> TcIds(blds) = {}]

\* lines 414-420: the missing_ids flag of _collect_production_idle_flags
ProdMissingIds(blds) ==
    \E i \in DOMAIN blds :
        blds[i].building \in PRODUCTION_BUILDINGS /\ blds[i].object_ids = <<>>

StandingWarning == "Cancellations and build destructions are not tracked."

QueueWarning ==
    "Missing object IDs for some queue events; idle times estimated overall."

ProductionWarning ==
    "Missing object IDs for some production buildings; idle flags may be incomplete."

\* lines 588-598
Warnings(flagged) ==
    <<StandingWarning>>
      \o (IF flagged.you_tc \/ flagged.opp_tc THEN <<QueueWarning>> ELSE <<>>)
      \o (IF flagged.you_prod \/ flagged.opp_prod
          THEN <<ProductionWarning>> ELSE <<>>)

\* a record without research actions and uptimes: extract_timings reports
\* no age click time
NoAges == [Feudal |-> None, Castle |-> None, Imperial |-> None]


\* bounds and input sets
PlayerNames == {<<"A", "l">>, <<"b", "o">>}

\* player records of a replay: distinct by their number
PlayerLists ==
    UNION {{[i \in 1..n |-> [number |-> i, name |-> f[i]]] :
               f \in [1..n -> PlayerNames]} : n \in 0..MaxPlayers}

YouNames ==
    {None, Some(<<>>), Some(<<"a", "l">>), Some(<<"B", "O">>), Some(<<"c", "y">>)}

YouPlayers == {None} \cup {Some(n) : n \in 0..(MaxPlayers + 1)}

DurationValues ==
    {NoneValue, IntValue(0), IntValue(125), StrValue(<<>>),
     StrValue(<<"1", ":", "3", "0", ":", "0", "0">>),
     StrValue(<<"1", "2", ":", "3", "4">>),
     StrValue(<<"1", "2", ":", "3", "4", ".", "5">>),
     StrValue(<<" ", "9", "0", ".", "7", " ">>),
     StrValue(<<"b", "o", "g", "u", "s">>),
     StrValue(<<"1", ":", "2", ":", "3", ":", "4">>),
     StrValue(<<"1", "2", ":", "x", "x">>)}

Train(p, unit, ts, ids) ==
    [player |-> p, type |-> "TRAIN", name |-> Some(unit), timestamp |-> ts,
     object_ids |-> ids]

Construct(p, building, ts, ids) ==
    [player |-> p, type |-> "BUILD", name |-> Some(building), timestamp |-> ts,
     object_ids |-> ids]

\* the actions of the player with list index p and object ids from base on:
\* nothing, everything identified, villagers queued without ids, a town
\* center without ids, a barracks without ids, archers queued without ids
PlayerProfiles(p, base) ==
    {<<>>,
     <<Construct(p, "Town Center", Some(0), <<base>>),
       Train(p, "Villager", Some(100), <<base>>),
       Construct(p, "Barracks", Some(200), <<base + 1>>),
       Train(p, "Archer", None, <<base + 1>>),
       Train(p, "Archer", Some(230), <<base + 1>>)>>,
     <<Construct(p, "Town Center", Some(0), <<base>>),
       Train(p, "Villager", Some(100), <<>>)>>,
     <<Construct(p, "Town Center", Some(0), <<>>),
       Train(p, "Villager", Some(100), <<base>>)>>,
     <<Construct(p, "Town Center", Some(0), <<base>>),
       Construct(p, "Barracks", Some(200), <<>>)>>,
     <<Construct(p, "Town Center", Some(0), <<base>>),
       Train(p, "Villager", Some(100), <<base>>),
       Construct(p, "Barracks", Some(200), <<base + 1>>),
       Train(p, "Archer", Some(230), <<>>)>>}

ReplayActions == {a \o b : a \in PlayerProfiles(0, 1), b \in PlayerProfiles(1, 11)}

\* every player list, viewer choice and duration on a replay without
\* actions, and every pair of action profiles on a two-player replay
ReportInit ==
    /\ pc = "report_start"
    /\ ArgsParked
    /\ SnapParked
    /\ SwitchParked
    /\ IdleParked
    /\ ProdParked
    /\ uptimes_data = <<>>
    /\ player_index = 0
    /\ clicks = EmptyDict
    /\ uptimes = EmptyDict
    /\ timings = EmptyDict
    /\ \/ /\ players \in PlayerLists
          /\ you_name \in YouNames
          /\ you_player \in YouPlayers
          /\ match_duration \in DurationValues
          /\ actions = <<>>
       \/ /\ players \in {q \in PlayerLists : Len(q) = 2}
          /\ you_name = None
          /\ you_player \in {None, Some(2)}
          /\ match_duration \in {NoneValue, IntValue(900)}
          /\ actions \in ReplayActions
    /\ viewer = None
    /\ opponent = None
    /\ missing = None
    /\ tc_idle = None
    /\ warnings = <<>>
    /\ error = None

\* lines 530-532
ReportNoPlayers ==
    /\ pc = "report_start"
    /\ Len(players) < 1
    /\ error' = Some("ValueError")
    /\ pc' = "raised"
    /\ UNCHANGED <<argVars, snapVars, switchVars, idleVars, timingVars, prodVars,
                   players, you_name, you_player, match_duration, viewer,
                   opponent, missing, tc_idle, warnings>>

\* line 533, find_player returning
ReportIdentify ==
    /\ pc = "report_start"
    /\ Len(players) >= 1
    /\ LET found == find_player(players, you_name, you_player)
       IN  /\ ~found.raised
           /\ viewer' = Some(found.value.you)
           /\ opponent' = Some(found.value.opponent)
    /\ pc' = "report_duration"
    /\ UNCHANGED <<argVars, snapVars, switchVars, idleVars, timingVars, prodVars,
                   players, you_name, you_player, match_duration, missing,
                   tc_idle, warnings, error>>

\* line 533, find_player raising
ReportIdentifyRaises ==
    /\ pc = "report_start"
    /\ Len(players) >= 1
    /\ LET found == find_player(players, you_name, you_player)
       IN  /\ found.raised
           /\ error' = Some(found.exc)
    /\ pc' = "raised"
    /\ UNCHANGED <<argVars, snapVars, switchVars, idleVars, timingVars, prodVars,
                   players, you_name, you_player, match_duration, viewer,
                   opponent, missing, tc_idle, warnings>>

\* lines 537-538, coerce_seconds returning
ReportDuration ==
    /\ pc = "report_duration"
    /\ ~CoerceDuration(match_duration).raised
    /\ duration' = CoerceDuration(match_duration).value
    /\ pc' = "report_detect"
    /\ UNCHANGED <<unit_events, age_times, snapVars, switchVars, idleVars,
                   timingVars, prodVars, reportVars>>

\* lines 537-538, coerce_seconds raising
ReportDurationRaises ==
    /\ pc = "report_duration"
    /\ CoerceDuration(match_duration).raised
    /\ error' = Some(CoerceDuration(match_duration).exc)
    /\ pc' = "raised"
    /\ UNCHANGED <<argVars, snapVars, switchVars, idleVars, timingVars, prodVars,
                   players, you_name, you_player, match_duration, viewer,
                   opponent, missing, tc_idle, warnings>>

\* the unit and build events of a player (lines 540-545)
UnitsOf(player) ==
    CollectUnitEvents(PlayerActions(actions, IndexOf(players, Val(player))))

BuildsOf(player) ==
    CollectBuildEvents(PlayerActions(actions, IndexOf(players, Val(player))))

\* lines 534-535 and 540-584: the idle detectors on both players
ReportDetect ==
    /\ pc = "report_detect"
    /\ LET you_tc == CollectTcIdle(UnitsOf(viewer), BuildsOf(viewer),
                                   duration, NoAges)
           opp_tc == CollectTcIdle(UnitsOf(opponent), BuildsOf(opponent),
                                   duration, NoAges)
       IN  /\ tc_idle' = [you |-> you_tc.total, opponent |-> opp_tc.total]
           /\ missing' = [you_tc   |-> you_tc.missing,
                          opp_tc   |-> opp_tc.missing,
                          you_prod |-> ProdMissingIds(BuildsOf(viewer)),
                          opp_prod |-> ProdMissingIds(BuildsOf(opponent))]
    /\ pc' = "report_warnings"
    /\ UNCHANGED <<argVars, snapVars, switchVars, idleVars, timingVars, prodVars,
                   players, you_name, you_player, match_duration, viewer,
                   opponent, warnings, error>>

\* lines 588-598 and the return of the report
ReportWarnings ==
    /\ pc = "report_warnings"
    /\ warnings' = Warnings(missing)
    /\ pc' = "done"
    /\ UNCHANGED <<argVars, snapVars, switchVars, idleVars, timingVars, prodVars,
                   players, you_name, you_player, match_duration, viewer,
                   opponent, missing, tc_idle, error>>

ReportNext ==
    \/ ReportNoPlayers
    \/ ReportIdentify
    \/ ReportIdentifyRaises
    \/ ReportDuration
    \/ ReportDurationRaises
    \/ ReportDetect
    \/ ReportWarnings

SpecReport == ReportInit /\ [][ReportNext]_vars


----------------------------------------------------------------------------
(* Properties of analyze_replay *)

\* the viewer the selection rule names: the first player whose name is the
\* requested name up to letter case, else the player at the requested
\* 1-based position, else the first player
SelectedViewer ==
    LET named == IF you_name = None \/ Val(you_name) = <<>> THEN {}
                 ELSE {i \in DOMAIN players :
                          Lower(players[i].name) = Lower(Val(you_name))}
    IN  IF named # {}
        THEN players[CHOOSE i \in named : \A k \in named : i <= k]
        ELSE IF you_player # None /\ Val(you_player) \in DOMAIN players
        THEN players[Val(you_player)]
        ELSE players[1]

\* C11: with at least one player record, player identification ends without
\* an error for every you_name / you_player: the viewer is the player the
\* selection rule names, the opponent is another player when there is one
\* and the viewer itself when there is only one player.
C11_IdentificationNeverFails ==
    (Len(players) >= 1 /\ pc # "report_start") =>
        /\ viewer # None
        /\ opponent # None
        /\ Val(viewer) = SelectedViewer
        /\ IF Len(players) = 1
           THEN opponent = viewer
           ELSE /\ opponent # viewer
                /\ \E i \in DOMAIN players : players[i] = Val(opponent)

\* C11: a single player named by you_name or you_player: find_player raises
\* StopIteration
C11_SinglePlayerRaises ==
    /\ pc = "raised"
    /\ Len(players) = 1
    /\ error = Some("StopIteration")

\* durations in no supported format
UnsupportedDurations ==
    {StrValue(<<"b", "o", "g", "u", "s">>),
     StrValue(<<"1", ":", "2", ":", "3", ":", "4">>),
     StrValue(<<"1", "2", ":", "x", "x">>)}

\* supported durations and their whole seconds
SupportedDurations ==
    {<<NoneValue, 0>>, <<IntValue(0), 0>>, <<IntValue(125), 125>>,
     <<IntValue(900), 900>>, <<StrValue(<<>>), 0>>,
     <<StrValue(<<"1", ":", "3", "0", ":", "0", "0">>), 5400>>,
     <<StrValue(<<"1", "2", ":", "3", "4">>), 754>>,
     <<StrValue(<<"1", "2", ":", "3", "4", ".", "5">>), 754>>,
     <<StrValue(<<" ", "9", "0", ".", "7", " ">>), 90>>}

\* the call is past line 538: the duration was accepted
DurationAccepted == pc \in {"report_detect", "report_warnings", "done"}

\* C13: a record with zero players, or with a duration in an unsupported
\* format, ends in a raised error and never in a report; a supported
\* duration is accepted as its whole seconds ("1:30:00" is 5400, "12:34" is
\* 754, 125 is 125).
C13_FatalErrorsPropagate ==
    /\ (players = <<>> \/ match_duration \in UnsupportedDurations) =>
           /\ ~DurationAccepted
           /\ warnings = <<>>
           /\ pc = "raised" => error # None
    /\ DurationAccepted =>
           \E d \in SupportedDurations :
               match_duration = d[1] /\ duration = d[2]
    /\ (pc = "raised" /\ Len(players) >= 1 /\ error = Some("ValueError")) =>
           match_duration \in UnsupportedDurations

\* a replay with players and the duration "bogus": ValueError, no report
C13_Witness ==
    /\ pc = "raised"
    /\ Len(players) >= 1
    /\ match_duration = StrValue(<<"b", "o", "g", "u", "s">>)
    /\ error = Some("ValueError")
    /\ warnings = <<>>

\* a report whose duration came from the text "1:30:00"
C13_AcceptedClock ==
    /\ pc = "done"
    /\ match_duration = StrValue(<<"1", ":", "3", "0", ":", "0", "0">>)
    /\ duration = 5400


Listed(text) == \E i \in DOMAIN warnings : warnings[i] = text

\* an identifier needed to tie the player's villager production to a town
\* center is absent: on a Town Center build event or on a villager event
TcIdsAbsent(player) ==
    \/ \E i \in DOMAIN BuildsOf(player) :
           /\ BuildsOf(player)[i].building = "Town Center"
           /\ BuildsOf(player)[i].object_ids = <<>>
    \/ \E i \in DOMAIN UnitsOf(player) :
           /\ UnitsOf(player)[i].line = "villager"
           /\ UnitsOf(player)[i].object_ids = <<>>

\* an identifier needed to tie a production building to its units is absent:
\* on the building's build event or on a unit event
ProdIdsAbsent(player) ==
    \/ \E i \in DOMAIN BuildsOf(player) :
           /\ BuildsOf(player)[i].building \in PRODUCTION_BUILDINGS
           /\ BuildsOf(player)[i].object_ids = <<>>
    \/ \E i \in DOMAIN UnitsOf(player) :
           /\ UnitsOf(player)[i].line # "villager"
           /\ UnitsOf(player)[i].object_ids = <<>>

\* C12: every report lists the standing warning; whenever an identifier
\* needed to tie a player's villager production to a town center, or a
\* production building to its units, is absent, that player's idle detector
\* raises missing_ids and the report lists the corresponding warning.
C12_MissingIdsFlagged ==
    pc = "done" =>
        /\ Listed(StandingWarning)
        /\ TcIdsAbsent(viewer) => missing.you_tc /\ Listed(QueueWarning)
        /\ TcIdsAbsent(opponent) => missing.opp_tc /\ Listed(QueueWarning)
        /\ ProdIdsAbsent(viewer) => missing.you_prod /\ Listed(ProductionWarning)
        /\ ProdIdsAbsent(opponent) => missing.opp_prod /\ Listed(ProductionWarning)

\* the part of C12 the code keeps: the standing warning, and a warning for
\* every missing_ids flag raised
C12_FlagsReported ==
    pc = "done" =>
        /\ Listed(StandingWarning)
        /\ (missing.you_tc \/ missing.opp_tc) <=> Listed(QueueWarning)
        /\ (missing.you_prod \/ missing.opp_prod) <=> Listed(ProductionWarning)

\* C12: villagers queued without object ids next to an identified town
\* center: zero idle seconds and no warning about it
C12_SilentZero ==
    /\ pc = "done"
    /\ duration = 900
    /\ TcIdsAbsent(viewer)
    /\ tc_idle.you = 0
    /\ ~Listed(QueueWarning)


----------------------------------------------------------------------------
(* _collect_production_idle_flags *)

\* default of the parameter idle_threshold
IdleThreshold == 60

Flag(building, obj_id, start, length) ==
    [building |-> building, object_id |-> obj_id, start |-> start,
     duration |-> length]

\* line 432: last_time = time
NextLast(last_time, time) == time

RECURSIVE WalkProduction(_, _, _, _, _)
\* lines 422-441: the flags of one object id, from last_time on
WalkProduction(times, last_time, building, obj_id, dur) ==
    IF times = <<>>
    THEN IF dur - last_time > IdleThreshold
         THEN <<Flag(building, obj_id, last_time, dur - last_time)>>
         ELSE <<>>
    ELSE LET time == Head(times)
         IN  (IF time - last_time > IdleThreshold
              THEN <<Flag(building, obj_id, last_time, time - last_time)>>
              ELSE <<>>)
                 \o WalkProduction(Tail(times), NextLast(last_time, time),
                                   building, obj_id, dur)

RECURSIVE BuildFlags(_, _, _, _)
\* lines 419-441: the flags of the object ids of one build event, in order
BuildFlags(build, ids, by_id, dur) ==
    IF ids = <<>> THEN <<>>
    ELSE WalkProduction(SortedTimes(Get(by_id, Head(ids), <<>>)), build.time,
                        build.building, Head(ids), dur)
             \o BuildFlags(build, Tail(ids), by_id, dur)

\* bounds and input sets
MaxProdEvents == 3

MaxBuilds == 2

Produced(t, ids) == [time |-> t, line |-> "archer_line", object_ids |-> ids]

ProdEvents ==
    {Produced(t, ids) : t \in {100, 230, 300}, ids \in {<<1>>, <<2>>}}
      \cup {Produced(230, <<>>)}

\* _collect_unit_events returns the events sorted by time (line 124)
ProdEventLists ==
    {q \in SeqsUpTo(ProdEvents, MaxProdEvents) :
        \A i \in 1..(Len(q) - 1) : q[i].time <= q[i + 1].time}

Built(what, t, ids) == [time |-> t, building |-> what, object_ids |-> ids]

ProdBuildEvents ==
    {Built("Barracks", 0, <<1>>), Built("Barracks", 200, <<1>>),
     Built("Barracks", 200, <<>>), Built("House", 0, <<2>>),
     Built("Archery Range", 200, <<1, 2>>)}

\* _collect_build_events returns the builds sorted by time (line 144)
ProdBuildLists ==
    {q \in SeqsUpTo(ProdBuildEvents, MaxBuilds) :
        \A i \in 1..(Len(q) - 1) : q[i].time <= q[i + 1].time}

ProdDurations == {250, 330}

ProdInit ==
    /\ pc = "prod_start"
    /\ SnapParked
    /\ SwitchParked
    /\ TimingParked
    /\ ReportParked
    /\ unit_events \in ProdEventLists
    /\ builds \in ProdBuildLists
    /\ duration \in ProdDurations
    /\ age_times = None
    /\ villager_events = <<>>
    /\ tc_ids = {}
    /\ had_ids = FALSE
    /\ idle_total = 0
    /\ per_age = NoIdle
    /\ events_by_tc = EmptyDict
    /\ tcs_left = {}
    /\ events_by_id = EmptyDict
    /\ flags = <<>>
    /\ missing_ids = FALSE
    /\ build_i = 0

\* the object ids carried by the unit events
EventIds ==
    UNION {{unit_events[i].object_ids[j] : j \in DOMAIN unit_events[i].object_ids} :
              i \in DOMAIN unit_events}

ProdFrame ==
    UNCHANGED <<argVars, snapVars, switchVars, idleVars, timingVars, reportVars>>

\* lines 406-411
ProdGroup ==
    /\ pc = "prod_start"
    /\ events_by_id' = [id \in EventIds |-> TimesOn(unit_events, id)]
    /\ flags' = <<>>
    /\ missing_ids' = FALSE
    /\ build_i' = 0
    /\ pc' = "prod_builds"
    /\ ProdFrame

\* lines 412-415: a build that is no production building
ProdSkip ==
    /\ pc = "prod_builds"
    /\ build_i < Len(builds)
    /\ builds[build_i + 1].building \notin PRODUCTION_BUILDINGS
    /\ build_i' = build_i + 1
    /\ UNCHANGED <<pc, events_by_id, flags, missing_ids>>
    /\ ProdFrame

\* lines 416-418: a production building without object ids
ProdMissing ==
    /\ pc = "prod_builds"
    /\ build_i < Len(builds)
    /\ builds[build_i + 1].building \in PRODUCTION_BUILDINGS
    /\ builds[build_i + 1].object_ids = <<>>
    /\ missing_ids' = TRUE
    /\ build_i' = build_i + 1
    /\ UNCHANGED <<pc, events_by_id, flags>>
    /\ ProdFrame

\* lines 419-441: the flags of a production building with object ids
ProdBuild ==
    /\ pc = "prod_builds"
    /\ build_i < Len(builds)
    /\ builds[build_i + 1].building \in PRODUCTION_BUILDINGS
    /\ builds[build_i + 1].object_ids # <<>>
    /\ flags' = flags \o BuildFlags(builds[build_i + 1],
                                    builds[build_i + 1].object_ids,
                                    events_by_id, duration)
    /\ build_i' = build_i + 1
    /\ UNCHANGED <<pc, events_by_id, missing_ids>>
    /\ ProdFrame

\* lines 442-445
ProdReturn ==
    /\ pc = "prod_builds"
    /\ build_i = Len(builds)
    /\ pc' = "done"
    /\ UNCHANGED prodVars
    /\ ProdFrame

ProdNext == ProdGroup \/ ProdSkip \/ ProdMissing \/ ProdBuild \/ ProdReturn

SpecProd == ProdInit /\ [][ProdNext]_vars


----------------------------------------------------------------------------
(* Properties of _collect_production_idle_flags *)

\* the times of the unit-production events carrying the object id o
ProducedOn(o) ==
    {unit_events[i].time :
        i \in {k \in DOMAIN unit_events :
                  \E j \in DOMAIN unit_events[k].object_ids :
                      unit_events[k].object_ids[j] = o}}

\* what C15 says of the flag f of the build event b
FlagAsClaimed(f, b) ==
    LET o     == f.object_id
        until == f.start + f.duration
    IN  /\ f.building = b.building
        /\ \E j \in DOMAIN b.object_ids : b.object_ids[j] = o
        /\ f.duration > IdleThreshold
        /\ f.start >= b.time
        /\ f.start = b.time \/ f.start \in ProducedOn(o)
        /\ \/ until = duration
           \/ /\ until \in ProducedOn(o)
              /\ \A t \in ProducedOn(o) : ~(f.start < t /\ t < until)

\* C15: every flag emitted for a production building with object id o
\* built at B lasts longer than the threshold, starts at B or later, at B or
\* at a production on o, and ends at the next production on o or at the
\* match duration; a build event without object ids emits no flag and sets
\* missing_ids.
C15_FlagsWithinBuildingLife ==
    [][build_i' = build_i + 1 =>
          LET b   == builds[build_i + 1]
              new == SubSeq(flags', Len(flags) + 1, Len(flags'))
          IN  /\ \A i \in DOMAIN new : FlagAsClaimed(new[i], b)
              /\ (b.building \in PRODUCTION_BUILDINGS /\ b.object_ids = <<>>) =>
                     new = <<>> /\ missing_ids']_vars

\* C15: a flag that starts before its building was built
C15_FlagBeforeBuild ==
    /\ pc = "done"
    /\ builds = <<Built("Barracks", 200, <<1>>)>>
    /\ \E i \in DOMAIN flags : flags[i].start = 100


----------------------------------------------------------------------------
(* analyze_replay: the opponent's snapshot_composition feeding _detect_switches *)

RECURSIVE ComposeFrom(_, _, _, _)
\* the for loop of snapshot_composition (lines 256-284) from bucket list bks on
ComposeFrom(bks, evs, cursor, tot) ==
    IF bks = <<>> THEN <<>>
    ELSE LET a == Advance(evs, cursor, tot, Head(bks))
         IN  <<Snapshot(Head(bks), a.totals)>>
                 \o ComposeFrom(Tail(bks), evs, a.idx, a.totals)

\* snapshot_composition as one function
SnapshotComposition(events, dur, ages) ==
    ComposeFrom(Buckets(dur, ages, Interval), SortedByTime(events), 0, EmptyDict)

\* bounds and input sets: the opponent queues batches of units of one line,
\* one batch per line shortly after each interval boundary
MaxBatches == 3

PipeLines == <<"knight_line", "archer_line">>

PipeBatchSizes == {0, SwitchPrevMax, SwitchDelta}

Batch(t, line, n) == [i \in 1..n |-> [time |-> t, line |-> line]]

BatchTime(k) == (k - 1) * Interval + 10

RECURSIVE BatchEvents(_, _, _)
\* the events of the batches sized by f, from slot (k, l) on, in time order
BatchEvents(f, k, l) ==
    IF k > MaxBatches THEN <<>>
    ELSE IF l > Len(PipeLines) THEN BatchEvents(f, k + 1, 1)
    ELSE Batch(BatchTime(k), PipeLines[l], f[<<k, l>>])
             \o BatchEvents(f, k, l + 1)

PipeEventLists ==
    {BatchEvents(f, 1, 1) :
        f \in [(1..MaxBatches) \X (1..Len(PipeLines)) -> PipeBatchSizes]}

\* the viewer trains three pikemen early in the second interval
PipeYouEvents == Batch(Interval + 20, "pikeman_line", CounterMin)

PipeAgeTimes ==
    {[Feudal |-> f, Castle |-> None, Imperial |-> None] :
        f \in {None, Some(Interval + 20)}}

PipeInit ==
    /\ pc = "snap_start"
    /\ ReportParked
    /\ ProdParked
    /\ SwitchParked
    /\ IdleParked
    /\ TimingParked
    /\ unit_events \in PipeEventLists
    /\ duration = MaxBatches * Interval
    /\ age_times \in PipeAgeTimes
    /\ buckets = <<>>
    /\ events_sorted = <<>>
    /\ idx = 0
    /\ totals = EmptyDict
    /\ snapshots = <<>>

\* lines 559-564 and 586: opp_snapshots is returned and handed, with the
\* viewer's snapshots, to _detect_switches
PipeSwitches ==
    /\ pc = "snap_loop"
    /\ Len(snapshots) = Len(buckets)
    /\ opponent_snapshots' = snapshots
    /\ you_snapshots' = SnapshotComposition(PipeYouEvents, duration, NoAges)
    /\ switch_events' = <<>>
    /\ response_delays' = <<>>
    /\ missed' = <<>>
    /\ pair_i' = 0
    /\ event_i' = 0
    /\ pc' = "ds_detect"
    /\ UNCHANGED <<argVars, snapVars, idleVars, timingVars, reportVars, prodVars>>

PipeNext ==
    \/ SnapSetup
    \/ SnapBucket
    \/ PipeSwitches
    \/ DetectPair
    \/ DetectEnd
    \/ RespondEvent
    \/ SwitchReturn

SpecPipe == PipeInit /\ [][PipeNext]_vars

----------------------------------------------------------------------------
(* Properties of the pipeline *)

\* the opponent's snapshots are cumulative: no count ever goes down
OppCumulative ==
    \A i \in 1..(Len(opponent_snapshots) - 1) :
        \A l \in DOMAIN opponent_snapshots[i].totals_by_line :
            /\ l \in DOMAIN opponent_snapshots[i + 1].totals_by_line
            /\ opponent_snapshots[i].totals_by_line[l]
                   <= opponent_snapshots[i + 1].totals_by_line[l]

\* C17: on the snapshot sequence snapshot_composition returns for the
\* opponent (cumulative counts), _detect_switches emits at most one
\* SwitchEvent per unit line.
C17_OneSwitchPerLine ==
    /\ OppCumulative
    /\ \A i, j \in DOMAIN switch_events :
           switch_events[i].opponent_line = switch_events[j].opponent_line
               => i = j

\* a line that jumped by 5 and later grew by 5 again: one event
C17_Witness ==
    /\ pc = "done"
    /\ CountLine(switch_events, "knight_line") = 1
    /\ \E i \in 1..(Len(opponent_snapshots) - 1) :
           /\ Get(opponent_snapshots[i].totals_by_line, "knight_line", 0)
                  = SwitchDelta
           /\ Get(opponent_snapshots[i + 1].totals_by_line, "knight_line", 0)
                  >= 2 * SwitchDelta

====
